---- MODULE Spec2Model ----
(***************************************************************************)
(* Spellcracker: the card catalog index (WitchesRevel/api.js), the         *)
(* closest-card resolver and the inline-command scan of a Discord message. *)
(* Strings are sequences of one-character strings, so that normalisation,  *)
(* the regular expressions and the edit distance are computed character by *)
(* character as the JavaScript computes them.                              *)
(***************************************************************************)
EXTENDS Integers, Sequences, FiniteSets, TLC

VARIABLES
  DATA,        \* api.js: the module-level cache object
  ALIASES,     \* aliases.js: the alias table loaded by loadAliases()
  RESULT_LIMIT,\* process.env.RESULT_LIMIT
  input,       \* the argument of the last getClosestCard call made directly
  result,      \* what that call returned
  content,     \* message.content of the last message handled
  sent,        \* channel.send calls of that message, in call order
  parsed,      \* the matches handed to parseCard for that message, in order
  logged,      \* number of logError calls made for that message
  countdown,   \* the countdown of parseInlineCommands when it returned
  rejections,  \* number of promises of that message that rejected unhandled
  load,        \* the call of init in flight or last made, and how it ended
  stage,       \* where start() stands
  focused,     \* the focused value of the last autocomplete interaction
  choices,     \* what that interaction was responded with
  BUTTONS,     \* the button registry of part_004
  registered,  \* every registerButton call made, in order
  invoked,     \* every call of a button callback made, in order
  pressed,     \* the last callButton call and how it ended
  randomCard,  \* what the last call of getRandomCardId returned
  helped,      \* the last help interaction and its reply
  commands     \* client.commands, in the order the commands were loaded

\* the state of the buttons, of getRandomCardId and of the help command
serviceVars ==
  <<BUTTONS, registered, invoked, pressed, randomCard, helped, commands>>

vars == <<DATA, ALIASES, RESULT_LIMIT, input, result, content, sent, parsed,
          logged, countdown, rejections, load, stage, focused, choices,
          serviceVars>>

-----------------------------------------------------------------------------
(* Bounds of the model *)

\* longest snapshot (number of cards) a build is given
MaxCards == 2

\* longest message, in fragments of MessageFragments
MaxFragments == 3

\* largest configured RESULT_LIMIT
MaxLimit == 2

-----------------------------------------------------------------------------
(* JavaScript values *)

\* undefined, as a value that compares with every string and card of the model
Undefined == <<"undefined">>

\* Object.prototype.constructor, which every plain object {} inherits; as a
\* property key it reads as this text
ObjectFunction == <<"function Object() { [native code] }">>

\* numbers: an integer or NaN
Num(n) == [nan |-> FALSE, n |-> n]
NaN == [nan |-> TRUE, n |-> 0]

LowerCase == <<"a","b","c","d","e","f","g","h","i","j","k","l","m",
               "n","o","p","q","r","s","t","u","v","w","x","y","z">>
UpperCase == <<"A","B","C","D","E","F","G","H","I","J","K","L","M",
               "N","O","P","Q","R","S","T","U","V","W","X","Y","Z">>
DigitChars == <<"0","1","2","3","4","5","6","7","8","9">>

Range(s) == {s[i] : i \in DOMAIN s}

IndexIn(c, alphabet) == CHOOSE i \in DOMAIN alphabet : alphabet[i] = c

\* String.prototype.toLowerCase / toUpperCase, one character
toLowerCaseChar(c) ==
  IF c \in Range(UpperCase) THEN LowerCase[IndexIn(c, UpperCase)] ELSE c

toUpperCaseChar(c) ==
  IF c \in Range(LowerCase) THEN UpperCase[IndexIn(c, LowerCase)] ELSE c

toLowerCase(s) == [i \in DOMAIN s |-> toLowerCaseChar(s[i])]
toUpperCase(s) == [i \in DOMAIN s |-> toUpperCaseChar(s[i])]

\* String.prototype.startsWith(q, at), positions counted from 1
StartsWithAt(s, q, at) ==
  /\ at + Len(q) - 1 <= Len(s)
  /\ \A i \in 1..Len(q) : s[at + i - 1] = q[i]

startsWith(s, q) == StartsWithAt(s, q, 1)

\* String.prototype.includes
includes(s, q) == \E at \in 1..(Len(s) + 1) : StartsWithAt(s, q, at)

\* String.prototype.trim
IsWhiteSpace(c) == c \in {" ", "\n"}

RECURSIVE trimStart(_)
trimStart(s) ==
  IF s # <<>> /\ IsWhiteSpace(Head(s)) THEN trimStart(Tail(s)) ELSE s

RECURSIVE trimEnd(_)
trimEnd(s) ==
  IF s # <<>> /\ IsWhiteSpace(s[Len(s)])
  THEN trimEnd(SubSeq(s, 1, Len(s) - 1)) ELSE s

trim(s) == trimEnd(trimStart(s))

\* obj[key] on a plain object {}: its own property, else the one property of
\* Object.prototype whose name an all-lower-case alphanumeric key can spell
constructorKey == <<"c","o","n","s","t","r","u","c","t","o","r">>

ObjGet(obj, key) ==
  IF key \in DOMAIN obj THEN obj[key]
  ELSE IF key = constructorKey THEN ObjectFunction
  ELSE Undefined

\* obj[key] = value
ObjPut(obj, key, value) ==
  [k \in DOMAIN obj \cup {key} |-> IF k = key THEN value ELSE obj[k]]

\* truthiness of a string, a card, a function or undefined
Truthy(v) == v # Undefined /\ v # <<>>

\* an array index as a property key, and back
IsCanonicalIndex(key) ==
  /\ key # <<>>
  /\ \A i \in DOMAIN key : key[i] \in Range(DigitChars)
  /\ (Len(key) = 1 \/ key[1] # "0")

RECURSIVE IndexValue(_)
IndexValue(key) ==
  IF key = <<>> THEN 0
  ELSE 10 * IndexValue(SubSeq(key, 1, Len(key) - 1))
       + (IndexIn(key[Len(key)], DigitChars) - 1)

RECURSIVE IndexKey(_)
IndexKey(i) ==
  IF i < 10 THEN <<DigitChars[i + 1]>>
  ELSE Append(IndexKey(i \div 10), DigitChars[(i % 10) + 1])

\* Number(string) of a decimal numeral; Number(undefined) is NaN
ToNumber(v) == IF v = Undefined THEN NaN ELSE Num(IndexValue(v))

\* an Array object: its length and its properties (elements under index keys)
ArrayOf(list) ==
  [length |-> Len(list),
   props |-> [k \in {IndexKey(i - 1) : i \in DOMAIN list} |->
                list[IndexValue(k) + 1]]]

\* array[key] = value: writing at or past the end grows the array
ArrayPut(array, key, value) ==
  [length |-> IF IsCanonicalIndex(key) /\ IndexValue(key) >= array.length
              THEN IndexValue(key) + 1 ELSE array.length,
   props |-> ObjPut(array.props, key, value)]

\* array[key]; no key the resolver passes spells a member of Array.prototype
ArrayGet(array, key) ==
  IF key \in DOMAIN array.props THEN array.props[key] ELSE Undefined

\* the elements Array.prototype.forEach visits from index i on, holes skipped
RECURSIVE ElementsFrom(_, _)
ElementsFrom(array, i) ==
  IF i >= array.length THEN <<>>
  ELSE (IF \E k \in DOMAIN array.props :
               IsCanonicalIndex(k) /\ IndexValue(k) = i
        THEN <<array.props[CHOOSE k \in DOMAIN array.props :
                             IsCanonicalIndex(k) /\ IndexValue(k) = i]>>
        ELSE <<>>) \o ElementsFrom(array, i + 1)

-----------------------------------------------------------------------------
(* Utility/text.js *)

IsWordChar(c) ==
  c \in Range(LowerCase) \cup Range(UpperCase) \cup Range(DigitChars) \cup {" "}

\* a run of spaces becomes its last space
collapseSpaces(s) ==
  LET kept == SelectSeq([i \in DOMAIN s |-> i],
                LAMBDA i : ~(s[i] = " " /\ i < Len(s) /\ s[i + 1] = " "))
  IN [k \in DOMAIN kept |-> s[kept[k]]]

\* normalise: lower-case, drop what is no letter, digit or space, collapse
\* runs of spaces, trim
normalise(s) ==
  trim(collapseSpaces(SelectSeq(toLowerCase(s), IsWordChar)))

\* readId: the identifier a title stands for (its normalised form with the
\* spaces replaced)
readId(s) ==
  IF s = Undefined THEN Undefined
  ELSE LET n == normalise(s)
       IN [i \in DOMAIN n |-> IF n[i] = " " THEN "_" ELSE n[i]]

-----------------------------------------------------------------------------
(* Utility/fuzzySearch.js *)

Min2(a, b) == IF a <= b THEN a ELSE b

\* one row of the edit-distance table: row[j+1] = distance(a[1..i], b[1..j])
RECURSIVE NextRow(_, _, _, _)
NextRow(prev, ai, b, acc) ==
  LET j == Len(acc)
  IN IF j > Len(b) THEN acc
     ELSE NextRow(prev, ai, b,
            Append(acc,
              Min2(Min2(prev[j + 1] + 1, acc[j] + 1),
                   prev[j] + (IF ai = b[j] THEN 0 ELSE 1))))

RECURSIVE Rows(_, _, _, _)
Rows(a, b, i, prev) ==
  IF i > Len(a) THEN prev
  ELSE Rows(a, b, i + 1, NextRow(prev, a[i], b, <<prev[1] + 1>>))

\* Levenshtein distance: insert, delete, substitute at unit cost
distance(a, b) == Rows(a, b, 1, [j \in 1..(Len(b) + 1) |-> j - 1])[Len(b) + 1]

\* the candidate at minimum distance from the query, the first one on a tie;
\* undefined when there is no candidate
RECURSIVE bestFrom(_, _, _)
bestFrom(query, candidates, best) ==
  IF candidates = <<>> THEN best
  ELSE bestFrom(query, Tail(candidates),
         IF distance(query, Head(candidates)) < distance(query, best)
         THEN Head(candidates) ELSE best)

bestMatch(query, candidates) ==
  IF candidates = <<>> THEN Undefined
  ELSE bestFrom(query, Tail(candidates), Head(candidates))

-----------------------------------------------------------------------------
(* The API snapshot *)

\* a card of the API: its id and fullNames.frontFace
Card(cardId, frontFace) == <<cardId, frontFace>>
id(card) == card[1]
frontFace(card) == card[2]

s_ab == <<"a","b">>
s_ba == <<"b","a">>
s_b_ab == <<"b"," ","a","b">>
s_0_7 == <<"0"," ","7">>
s_07 == <<"0","7">>

\* the cards a snapshot is drawn from; each id is the readId of the title,
\* the key getCard finds the card under
CardPool ==
  { Card(s_ab, <<"A","b">>),
    Card(s_ab, <<"a","b","!">>),
    Card(s_ba, <<"B","a">>),
    Card(<<"b","_","a","b">>, <<"B"," ","A","b">>),
    Card(<<"b","_","a","b">>, <<"b"," ","a","b","!">>),
    Card(<<"b","_","a">>, <<"B"," ","A">>),
    Card(<<"0","_","7">>, <<"0"," ","7">>),
    Card(s_07, <<"0","7">>) }

Expansions == << <<"e1">> >>

RECURSIVE ListsOver(_, _)
ListsOver(S, n) ==
  IF n = 0 THEN {<<>>}
  ELSE LET shorter == ListsOver(S, n - 1)
       IN shorter \cup {Append(l, x) : l \in {m \in shorter : Len(m) = n - 1},
                                       x \in S}

IsOneToOne(list) ==
  \A i, j \in DOMAIN list : list[i] = list[j] => i = j

\* the documents fetchData resolves to: cards/all.json with up to MaxCards
\* different cards
Snapshots(pool) ==
  {[cards |-> l, expansions |-> Expansions] :
     l \in {m \in ListsOver(pool, MaxCards) : IsOneToOne(m)}}

-----------------------------------------------------------------------------
(* WitchesRevel/api.js *)

Has(obj, field) == field \in DOMAIN obj

Least(S) == CHOOSE x \in S : \A y \in S : x <= y

\* lines 58-61: DATA.cards is the snapshot's array itself, each card stored
\* again under the id of its title, in snapshot order
RECURSIVE CacheCards(_, _, _)
CacheCards(array, i, n) ==
  IF i >= n THEN array
  ELSE LET here == ElementsFrom([array EXCEPT !.length = i + 1], i)
           stored == IF here = <<>> THEN array
                     ELSE ArrayPut(array, readId(frontFace(here[1])), here[1])
       IN \* the test has the array computed before the next card is visited
          IF stored.length < 0 THEN stored ELSE CacheCards(stored, i + 1, n)

\* lines 72-75: the first character of each space-separated word
RECURSIVE acronymOf(_, _)
acronymOf(normalised, i) ==
  IF i > Len(normalised) THEN <<>>
  ELSE (IF normalised[i] # " " /\ (i = 1 \/ normalised[i - 1] = " ")
        THEN <<normalised[i]>> ELSE <<>>) \o acronymOf(normalised, i + 1)

\* lines 76-78: the first card to claim an acronym keeps it
AddAcronym(acronyms, acronym, cardId) ==
  IF ~Truthy(ObjGet(acronyms, acronym))
  THEN ObjPut(acronyms, acronym, cardId) ELSE acronyms

\* a slip of lines 68-69: a title already in the map is kept
PutTitleOnce(titles, normalised, title) ==
  IF Has(titles, normalised) THEN titles ELSE ObjPut(titles, normalised, title)

\* lines 68-69: the original form of a normalised title, set for every card
PutTitle(titles, normalised, title) == ObjPut(titles, normalised, title)

\* lines 64-79: the titles loop over the cards of the array
RECURSIVE CacheTitles(_, _)
CacheTitles(cards, acc) ==
  IF cards = <<>> THEN acc
  ELSE LET card == Head(cards)
           normalised == normalise(frontFace(card))
           cached ==
             [normalisedCardTitles |->
                Append(acc.normalisedCardTitles, normalised),
              normalisedToUnnormalisedCardTitles |->
                PutTitle(acc.normalisedToUnnormalisedCardTitles, normalised,
                         frontFace(card)),
              acronymsToCardIds |->
                AddAcronym(acc.acronymsToCardIds, acronymOf(normalised, 1),
                           id(card))]
       IN \* the test has the three structures computed before the next card
          IF cached.normalisedCardTitles = <<>> THEN cached
          ELSE CacheTitles(Tail(cards), cached)

\* title[0] as a property key
FirstCharKey(title) == IF title = <<>> THEN Undefined ELSE <<title[1]>>

\* lines 83-91: the titles grouped by their first character, in title order
\* (a list is truthy, and Object.prototype has no one-character member)
RECURSIVE MapTitles(_, _)
MapTitles(titles, mapped) ==
  IF titles = <<>> THEN mapped
  ELSE LET char == FirstCharKey(Head(titles))
           grouped ==
             IF Has(mapped, char)
             THEN ObjPut(mapped, char, Append(mapped[char], Head(titles)))
             ELSE ObjPut(mapped, char, <<Head(titles)>>)
       IN \* the test has the lists computed before the next title
          IF DOMAIN grouped = {} THEN grouped
          ELSE MapTitles(Tail(titles), grouped)

\* lines 94-97
RECURSIVE CacheExpansions(_, _)
CacheExpansions(expansions, acc) ==
  IF expansions = <<>> THEN acc
  ELSE CacheExpansions(Tail(expansions),
         ObjPut(acc, Head(expansions)[1], Head(expansions)))

\* loadApiData, lines 57-97, on a fetched document data: the value of DATA
\* when it returns
loadApiData(data) ==
  LET cards == CacheCards(ArrayOf(data.cards), 0, Len(data.cards))
      titles == CacheTitles(ElementsFrom(cards, 0),
                  [normalisedCardTitles |-> <<>>,
                   normalisedToUnnormalisedCardTitles |-> <<>>,
                   acronymsToCardIds |-> <<>>])
  IN [cards |-> cards,
      normalisedCardTitles |-> titles.normalisedCardTitles,
      normalisedToUnnormalisedCardTitles |->
        titles.normalisedToUnnormalisedCardTitles,
      acronymsToCardIds |-> titles.acronymsToCardIds,
      mappedCardTitles |-> MapTitles(titles.normalisedCardTitles, <<>>),
      expansions |-> CacheExpansions(data.expansions, <<>>)]

\* a slip of line 169: the first card of the array whatever the id
getFirstCard(cardId) == ArrayGet(DATA.cards, IndexKey(0))

\* getCard, lines 168-170
getCard(cardId) == ArrayGet(DATA.cards, cardId)

\* lines 139-143: the test that sends a query down the acronym shortcut
IsAcronymQuery(in, query) ==
  /\ Len(query) > 1
  /\ toUpperCase(in) = in
  /\ Truthy(ObjGet(DATA.acronymsToCardIds, query))

\* lines 148-153
superStrings(query) ==
  SelectSeq(DATA.normalisedCardTitles, LAMBDA title : includes(title, query))

leadingStrings(query) ==
  SelectSeq(superStrings(query), LAMBDA title : startsWith(title, query))

\* a slip of lines 154-159: every title is ranked, whatever matches
CandidatesAll(query) == DATA.normalisedCardTitles

\* lines 154-159: the candidates bestMatch ranks
Candidates(query) ==
  IF Len(leadingStrings(query)) > 0 THEN leadingStrings(query)
  ELSE IF Len(superStrings(query)) > 0 THEN superStrings(query)
  ELSE DATA.normalisedCardTitles

\* getClosestCard, lines 135-162
getClosestCard(in) ==
  LET query == normalise(in)
  IN IF IsAcronymQuery(in, query)
     THEN getCard(ObjGet(DATA.acronymsToCardIds, query))
     ELSE getCard(readId(bestMatch(query, Candidates(query))))

\* denormaliseCardTitle, lines 198-200
denormaliseCardTitle(cardTitle) ==
  ObjGet(DATA.normalisedToUnnormalisedCardTitles, cardTitle)

\* a slip of line 210: the titles of the first character, not filtered
searchFirstCharOnly(query) ==
  IF Truthy(query) /\ Len(query) > 0
  THEN IF Has(DATA.mappedCardTitles, <<query[1]>>)
       THEN DATA.mappedCardTitles[<<query[1]>>]
       ELSE <<>>
  ELSE <<>>

\* searchNormalisedCardTitles, lines 206-214; firstResults is a list, which
\* is truthy, or undefined (Object.prototype has no one-character member)
searchNormalisedCardTitles(query) ==
  IF Truthy(query) /\ Len(query) > 0
  THEN IF Has(DATA.mappedCardTitles, <<query[1]>>)
       THEN SelectSeq(DATA.mappedCardTitles[<<query[1]>>],
                      LAMBDA title : startsWith(title, query))
       ELSE <<>>
  ELSE <<>>

\* what a statement that fails throws, and no failure
TypeError == <<"TypeError">>
FetchError == <<"Failed to load data from API">>
NoError == <<"no error">>

\* a parsed body: its cards and expansions; missing names a member the
\* document lacks ("none" when it has both)
Doc(cards, expansions, missing) ==
  [cards |-> cards, expansions |-> expansions, missing |-> missing]

\* what fetch(url) settles with: kind "rejected" (the request rejects),
\* "not ok" (response.ok is false), "bad body" (response.json() rejects) or
\* "ok" with the parsed body
Response(kind, data) == [kind |-> kind, data |-> data]

\* a slip of lines 108-110: the body is returned whatever response.ok
fetchDataUnchecked(response) ==
  IF response.kind \in {"rejected", "bad body"}
  THEN [threw |-> FetchError, value |-> response.data]
  ELSE [threw |-> NoError, value |-> response.data]

\* fetchData, lines 106-117: every failure ends in the catch of line 114,
\* which throws a new Error
fetchData(response) ==
  IF response.kind \in {"rejected", "not ok", "bad body"}
  THEN [threw |-> FetchError, value |-> response.data]
  ELSE [threw |-> NoError, value |-> response.data]

\* a slip of line 55: the index is emptied before the fetch is awaited
clearedBeforeFetch(D) == [k \in {} |-> D[k]]

\* loadApiData, lines 54-55, up to the await of the fetch: nothing of DATA
\* is written
beforeFetch(D) == D

\* delete obj[key]; a member set to undefined reads like one that is absent
ObjDrop(obj, key) == [k \in DOMAIN obj \ {key} |-> obj[k]]

\* loadApiData, lines 57-97, run on DATA = D with the fetched document data
\* until a statement throws: the value of DATA it leaves and what it threw.
\* Without data.cards line 58 sets DATA.cards to undefined and line 59
\* throws; a card without fullNames throws at line 60, with the cards before
\* it stored; without data.expansions line 95 throws, after line 94.
loadApiDataFrom(D, data) ==
  LET bad == {i \in DOMAIN data.cards :
                frontFace(data.cards[i]) = Undefined}
  IN IF data.missing = "cards"
     THEN [DATA |-> ObjDrop(D, "cards"), threw |-> TypeError]
     ELSE IF bad # {}
     THEN [DATA |-> ObjPut(D, "cards",
                      CacheCards(ArrayOf(data.cards), 0, Least(bad) - 1)),
           threw |-> TypeError]
     ELSE IF data.missing = "expansions"
     THEN [DATA |-> [loadApiData(data) EXCEPT !.expansions = <<>>],
           threw |-> TypeError]
     ELSE [DATA |-> loadApiData(data), threw |-> NoError]

-----------------------------------------------------------------------------
(* WitchesRevel/aliases.js *)

\* the alias file: alias -> canonical query
AliasSource == [k \in {<<"x">>} |-> s_ba]

\* applyAlias: the query an alias stands for, else the normalised input
applyAlias(in) ==
  IF Has(ALIASES, normalise(in)) THEN ALIASES[normalise(in)]
  ELSE normalise(in)

-----------------------------------------------------------------------------
(* Commands/view_aliases.js *)

\* the most choices an autocomplete response holds, line 82
MaxChoices == 25

\* autocomplete, lines 79-85: what interaction.respond is called with for
\* the focused value
autocomplete(value) ==
  LET focusedValue == normalise(value)
      found == searchNormalisedCardTitles(focusedValue)
      kept == SubSeq(found, 1, Min2(Len(found), MaxChoices))
  IN [i \in DOMAIN kept |->
        [name |-> denormaliseCardTitle(kept[i]), value |-> kept[i]]]

-----------------------------------------------------------------------------
(* The message handler: parseInlineCommands and parseCard *)

\* the longest query parseInlineCommands accepts
MaxQueryLength == 255

\* the backtick character, named: a TLA+ string cannot hold it
Backtick == "backtick"

ticks == <<Backtick, Backtick, Backtick>>

\* the positions of s that hold one of chars
PositionsOf(s, chars) == {i \in DOMAIN s : s[i] \in chars}

\* the positions at which three backticks start
TickStarts(s) ==
  LET at == PositionsOf(s, {Backtick})
  IN {i \in at : i + 1 \in at /\ i + 2 \in at}

\* a slip of line 154: the lookbehind dropped, an escaped marker opens a
\* block as well
IsCodeBlockAtEscaped(s, marks, i) ==
  i \in marks /\ \E j \in marks : j >= i + 3

\* where the code-block pattern matches from position i: three backticks
\* that no backslash precedes, lazily up to the next three backticks
IsCodeBlockAt(s, marks, i) ==
  /\ i \in marks
  /\ (i = 1 \/ s[i - 1] # "\\")
  /\ \E j \in marks : j >= i + 3

\* the matches of the code-block pattern from position from on are removed,
\* leftmost first
RECURSIVE stripFrom(_, _, _)
stripFrom(s, marks, from) ==
  LET starts == {i \in marks : i >= from /\ IsCodeBlockAt(s, marks, i)}
      open == Least(starts)
      close == Least({j \in marks : j >= open + 3})
  IN IF starts = {} THEN SubSeq(s, from, Len(s))
     ELSE SubSeq(s, from, open - 1) \o stripFrom(s, marks, close + 3)

\* line 154: content.replace(/(?<!\\)...[\s\S]*?.../g, ""), the dots being
\* the three backticks
stripCodeBlocks(s) == stripFrom(s, TickStarts(s), 1)

Openers == {"[", "{", "<"}
Closers == {"]", "}", ">"}
CloserOf(c) == IF c = "[" THEN "]" ELSE IF c = "{" THEN "}" ELSE ">"

\* the last position of the match that starts at i, 0 if none: a doubled
\* opener, lazily any characters but a line break, the first doubled closer
\* of its kind. marks are the positions of s that hold a delimiter or a
\* line break.
MatchEnd(s, marks, i) ==
  LET ends == {j \in marks :
                 /\ j >= i + 2 /\ j + 1 \in marks
                 /\ s[j] = CloserOf(s[i]) /\ s[j + 1] = s[j]}
  IN IF /\ i \in marks /\ i + 1 \in marks
        /\ s[i] \in Openers /\ s[i + 1] = s[i]
        /\ ends # {}
        /\ \A k \in marks : (i < k /\ k < Least(ends)) => s[k] # "\n"
     THEN Least(ends) + 1 ELSE 0

\* the matches of the inline-command pattern from position from on, leftmost
\* first and not overlapping
RECURSIVE matchFrom(_, _, _)
matchFrom(s, marks, from) ==
  LET starts == {i \in marks : i >= from /\ MatchEnd(s, marks, i) # 0}
      first == Least(starts)
      last == MatchEnd(s, marks, first)
  IN IF starts = {} THEN <<>>
     ELSE <<SubSeq(s, first, last)>> \o matchFrom(s, marks, last + 1)

\* lines 155-156: filteredContent.match(/\[\[.*?\]\]|\{\{.*?\}\}|<<.*?>>/g),
\* the empty list standing for null
matchAll(s) ==
  matchFrom(s, PositionsOf(s, Openers \cup Closers \cup {"\n"}), 1)

Matches(text) == matchAll(stripCodeBlocks(text))

\* embed.js: the two views of a card
createCardEmbed(card) == [view |-> "full", card |-> card]
createCardImageEmbed(card) == [view |-> "art", card |-> card]

\* a promise, as the value an async function returns
Promise(state, value) == <<"Promise", state, value>>

\* a slip of line 211: no card counts as posted already
previousCardsNeverInclude(previousCards, cardId) == FALSE

\* line 211: previousCards.includes(card.id)
previousCardsIncludes(previousCards, cardId) ==
  \E i \in DOMAIN previousCards : previousCards[i] = cardId

\* a slip of lines 217-218: the full view whatever the delimiter
outEmbedFull(match, card) == createCardEmbed(card)

\* lines 217-218: the view the opening delimiter asks for
outEmbed(match, card) ==
  IF match[1] = "[" THEN createCardEmbed(card) ELSE createCardImageEmbed(card)

\* parseCard, lines 201-222; an async function without await runs to its end
\* when it is called. rawInput is no name in its scope, so building the
\* error message throws before logError is called and the promise rejects.
parseCard(match, query, previousCards) ==
  LET card == getClosestCard(applyAlias(query))
  IN IF ~Truthy(card)
     THEN [promise |-> Promise("rejected", "ReferenceError"),
           previousCards |-> previousCards, send |-> <<>>, logError |-> 0]
     ELSE IF previousCardsIncludes(previousCards, id(card))
     THEN [promise |-> Promise("fulfilled", "false"),
           previousCards |-> previousCards, send |-> <<>>, logError |-> 0]
     ELSE [promise |-> Promise("fulfilled", "true"),
           previousCards |-> Append(previousCards, id(card)),
           send |-> <<outEmbed(match, card)>>,
           logError |-> 0]

\* line 174, countdown < 1, on the number countdown converts to
LessThan(a, k) == ~a.nan /\ a.n < k

\* line 187, countdown--
Decrement(a) == IF a.nan THEN a ELSE Num(a.n - 1)

\* line 178
rawInputOf(match) == trim(SubSeq(match, 3, Len(match) - 2))

\* lines 173-189: the loop over the matches; st is what the run has made so far
RECURSIVE parseLoop(_, _)
parseLoop(matches, st) ==
  IF matches = <<>> THEN st
  ELSE IF LessThan(st.countdown, 1) THEN st
  ELSE LET match == Head(matches)
           rawInput == rawInputOf(match)
       IN IF rawInput = <<>> \/ Len(rawInput) > MaxQueryLength THEN st
          ELSE LET success == parseCard(match, rawInput, st.cards)
               IN parseLoop(Tail(matches),
                    [countdown |-> IF Truthy(success.promise)
                                   THEN Decrement(st.countdown)
                                   ELSE st.countdown,
                     cards |-> success.previousCards,
                     sent |-> st.sent \o success.send,
                     parsed |-> Append(st.parsed, match),
                     logged |-> st.logged + success.logError,
                     rejections |-> st.rejections +
                       (IF success.promise[2] = "rejected" THEN 1 ELSE 0)])

\* parseInlineCommands, lines 151-190: countdown starts as the text of
\* RESULT_LIMIT and is only ever used as a number
parseMatches(matches) ==
  parseLoop(matches,
    [countdown |-> ToNumber(RESULT_LIMIT), cards |-> <<>>, sent |-> <<>>,
     parsed |-> <<>>, logged |-> 0, rejections |-> 0])

parseInlineCommands(text) == parseMatches(Matches(text))

-----------------------------------------------------------------------------
(* Messages and queries *)

RECURSIVE Flatten(_)
Flatten(parts) ==
  IF parts = <<>> THEN <<>> ELSE Head(parts) \o Flatten(Tail(parts))

LongQuery == [i \in 1..(MaxQueryLength + 1) |-> "a"]

\* the pieces messages are put together from
MessageFragments ==
  { <<"[","[","a","b","]","]">>,
    <<"{","{","x","}","}">>,
    <<"[","["," ","]","]">>,
    <<"[","[">> \o LongQuery \o <<"]","]">>,
    ticks,
    ticks \o <<"[","[","a","b","]","]">> \o ticks,
    <<"\\">> }

Messages == {Flatten(parts) : parts \in ListsOver(MessageFragments, MaxFragments)}

\* the cards the message handler is exercised on
ScanPool ==
  { Card(s_ab, <<"A","b">>),
    Card(s_ba, <<"B","a">>) }

\* the queries getClosestCard is called with directly
Queries ==
  { s_ab, s_ba, s_b_ab, s_0_7, s_07,
    <<"b">>, <<"B","A">>, <<"z","z">>,
    <<"C","O","N","S","T","R","U","C","T","O","R">> }

\* RESULT_LIMIT as the environment gives it: a numeral, or unset
Limits == {IndexKey(n) : n \in 1..MaxLimit} \cup {Undefined}

NoCall == <<"none">>

\* the cards the build is exercised on; the last one has no fullNames
BuildPool ==
  { Card(s_ab, <<"A","b">>),
    Card(s_ba, <<"B","a">>),
    Card(<<"x">>, Undefined) }

\* how many calls of init a behaviour makes
MaxBuilds == 2

\* the body of an error page
ErrorBody == Doc(<<>>, <<>>, "cards")

\* the parsed bodies a fetch of cards/all.json resolves to: well-formed
\* snapshots, and documents without cards, with a card without fullNames or
\* without expansions
BuildDocs ==
  {Doc(d.cards, d.expansions, missing) :
     d \in Snapshots(BuildPool), missing \in {"none", "expansions"}}
  \cup {ErrorBody}

Responses ==
  {Response(kind, ErrorBody) : kind \in {"rejected", "not ok", "bad body"}}
  \cup {Response("ok", data) : data \in BuildDocs}

\* the queries resolved while the index is rebuilt
BuildQueries == {s_ab, <<"b">>}

\* no call of init made yet
NotLoading ==
  [state |-> "idle", previous |-> <<>>, thrown |-> NoError, kind |-> "none",
   data |-> ErrorBody, count |-> 0, served |-> 0]

\* how many reference spans the longest text of the cap specification has
MaxSpans == 6

\* the i-th card of the cap specification: a doubled letter
CapCard(i) == Card(<<LowerCase[i], LowerCase[i]>>, <<LowerCase[i], LowerCase[i]>>)

CapSnapshot ==
  [cards |-> [i \in 1..MaxSpans |-> CapCard(i)], expansions |-> Expansions]

\* the span that names the i-th card, the three delimiter forms in turn
CapSpan(i) ==
  LET opener == <<"[", "{", "<">>[((i - 1) % 3) + 1]
      inner == frontFace(CapCard(i))
  IN <<opener, opener>> \o inner \o <<CloserOf(opener), CloserOf(opener)>>

\* the spans of the positions in S, left to right, a space between them
RECURSIVE CapText(_, _)
CapText(S, i) ==
  IF i > MaxSpans THEN <<>>
  ELSE (IF i \in S THEN CapSpan(i) \o <<" ">> ELSE <<>>) \o CapText(S, i + 1)

CapTexts == {CapText(S, 1) : S \in SUBSET (1..MaxSpans)}

\* how many cards the largest catalog of the search specification has
MaxTitles == 29

\* the i-th card of the search specification: a title without a word character, a
\* title that normalises like a later one, then Ba, Aa, Ab, ... Az, Bb, ...
WideCard(i) ==
  IF i = 1 THEN Card(<<>>, <<"!">>)
  ELSE IF i = 2 THEN Card(s_ab, <<"a","b","!">>)
  ELSE IF i = 3 THEN Card(s_ba, <<"B","a">>)
  ELSE LET k == i - 4
           first == (k \div 26) + 1
           second == ((k + (k \div 26)) % 26) + 1
       IN Card(<<LowerCase[first], LowerCase[second]>>,
               <<UpperCase[first], LowerCase[second]>>)

\* the catalogs of the search specification: the first n of the cards
WideSnapshots ==
  {[cards |-> [i \in 1..n |-> WideCard(i)], expansions |-> Expansions] :
     n \in 0..MaxTitles}

\* the focused values of the autocomplete interactions
FocusedValues ==
  { <<>>, <<"a">>, <<"A">>, <<"a","b">>, <<"A","z","!">>, <<"b">>,
    <<"b","a">>, <<"z">> }

-----------------------------------------------------------------------------
(* Interactions/button: part_004 *)

\* A call works on the registry and the calls made so far,
\* [BUTTONS, registered, invoked, threw]. What a callback does when it is
\* called is one of: return, throw, call callButton for its own button (on
\* its first call only), register a returning callback for its own button.

\* lines 28-33; the callback is told apart by the call that registered it
registerButton(st, interaction, buttonId, does) ==
  LET made == Append(st.registered,
                     [interaction |-> interaction, buttonId |-> buttonId,
                      does |-> does])
  IN [st EXCEPT !.registered = made,
                !.BUTTONS = ObjPut(st.BUTTONS, buttonId,
                              [parentInteraction |-> interaction,
                               callback |-> [does |-> does,
                                             reg |-> Len(made)]])]

RECURSIVE callButton(_, _, _)
RECURSIVE callback(_, _, _, _)

\* lines 43-46: BUTTONS[buttonId].callback(parentInteraction, interaction)
callback(st, entry, interaction, buttonId) ==
  LET cb == entry.callback
      first == \A k \in DOMAIN st.invoked : st.invoked[k].reg # cb.reg
      called == [st EXCEPT !.invoked =
                   Append(@, [reg |-> cb.reg,
                              parentInteraction |-> entry.parentInteraction,
                              buttonInteraction |-> interaction])]
  IN CASE cb.does = "returns" -> called
       [] cb.does = "throws" -> [called EXCEPT !.threw = <<"thrown by the callback">>]
       [] cb.does = "presses" ->
            IF first THEN callButton(called, interaction, buttonId)
            ELSE called
       [] cb.does = "registers" ->
            registerButton(called, entry.parentInteraction, buttonId,
                           "returns")

\* lines 41-57. The registry is a plain object, so "constructor" finds
\* Object, which has no callback to call (line 43); the other branch
\* constructs an EmbedBuilder the module does not import (line 49).
callButton(st, interaction, buttonId) ==
  IF Has(st.BUTTONS, buttonId)
  THEN LET ran == callback(st, st.BUTTONS[buttonId], interaction, buttonId)
       IN IF ran.threw # NoError THEN ran
          ELSE [ran EXCEPT !.BUTTONS = ObjDrop(@, buttonId)]
  ELSE IF buttonId = constructorKey THEN [st EXCEPT !.threw = TypeError]
  ELSE [st EXCEPT !.threw = <<"ReferenceError">>]

\* no callButton call made yet
NotPressed ==
  [interaction |-> "none", buttonId |-> <<>>, reg |-> 0, threw |-> NoError]


-----------------------------------------------------------------------------
(* Commands/help.js *)

s_view_aliases == <<"v","i","e","w","_","a","l","i","a","s","e","s">>

\* The command modules client.commands can hold, each with its data (the
\* SlashCommandBuilder: name, description, and a longDescription where the
\* module sets one) and its meta object: help (lines 15-25), view_aliases
\* (part_001 lines 26-40) and the two ways of a further command, shown and
\* hidden.
CommandPool ==
  { [data |-> [name |-> <<"h","e","l","p">>,
               description |-> "shows information about a specific command"],
     meta |-> <<>>],
    [data |-> [name |-> s_view_aliases,
               description |-> "displays all aliases of a given card"],
     meta |-> [hideFromHelp |-> TRUE]],
    [data |-> [name |-> <<"c","a","r","d">>, description |-> "shows a card"],
     meta |-> [hideFromHelp |-> FALSE]],
    [data |-> [name |-> <<"c","a","r","d">>, description |-> "shows a card",
               longDescription |-> "shows a card, at length"],
     meta |-> [hideFromHelp |-> TRUE]] }

\* object.hideFromHelp as a condition: undefined where the property is
\* missing
hideFromHelp(object) ==
  IF Has(object, "hideFromHelp") THEN object.hideFromHelp ELSE FALSE

\* execute, lines 27-70: the embed replied with. null and the empty string
\* both take the branch of the full list; line 35 reads hideFromHelp off
\* the command's data; line 36 puts the name between two backticks; lines
\* 57-61 list each command whose meta does not
\* hide it.
helpExecute(collection, commandName) ==
  LET got == SelectSeq(collection, LAMBDA c : c.data.name = commandName)
      shown == SelectSeq(collection, LAMBDA c : ~hideFromHelp(c.meta))
  IN IF commandName # Undefined /\ commandName # <<>>
     THEN IF got # <<>> /\ ~hideFromHelp(got[1].data)
          THEN [kind |-> "execute", asked |-> commandName,
                titleText |-> <<"(backtick)">> \o got[1].data.name
                               \o <<"(backtick)">>,
                descriptionText |->
                  IF Has(got[1].data, "longDescription")
                  THEN got[1].data.longDescription
                  ELSE got[1].data.description,
                listed |-> <<>>]
          ELSE [kind |-> "execute", asked |-> commandName,
                titleText |-> <<"Unknown command">>,
                descriptionText |-> "No command exists with that name!",
                listed |-> <<>>]
     ELSE [kind |-> "execute", asked |-> commandName,
           titleText |-> <<"Spellcracker">>,
           descriptionText |-> "A Discord Witches' Revel bot.",
           listed |-> [k \in DOMAIN shown |->
                         [name |-> shown[k].data.name,
                          description |-> shown[k].data.description]]]

\* autocomplete, lines 72-82
helpAutocomplete(collection, value) ==
  LET focusedValue == normalise(value)
      valid == SelectSeq(collection,
                 LAMBDA c : /\ ~hideFromHelp(c.meta)
                            /\ startsWith(normalise(c.data.name),
                                          focusedValue))
  IN [kind |-> "autocomplete", asked |-> value, titleText |-> <<>>,
      descriptionText |-> "",
      listed |-> [k \in DOMAIN valid |->
                    [name |-> valid[k].data.name,
                     description |-> valid[k].data.name]]]

\* no help interaction handled yet
NotHelped ==
  [kind |-> "none", asked |-> <<>>, titleText |-> <<>>,
   descriptionText |-> "", listed |-> <<>>]

-----------------------------------------------------------------------------
(* The state machine *)

Init ==
  /\ DATA = <<>>
  /\ ALIASES = <<>>
  /\ RESULT_LIMIT \in Limits
  /\ input = NoCall
  /\ result = NoCall
  /\ content = NoCall
  /\ sent = <<>>
  /\ parsed = <<>>
  /\ logged = 0
  /\ countdown = NaN
  /\ rejections = 0
  /\ load = NotLoading
  /\ stage = "new"
  /\ focused = NoCall
  /\ choices = <<>>
  /\ BUTTONS = <<>>
  /\ registered = <<>>
  /\ invoked = <<>>
  /\ pressed = NotPressed
  /\ randomCard = NoCall
  /\ helped = NotHelped
  /\ commands = <<>>

Built == Has(DATA, "normalisedCardTitles")

\* api.js init, lines 40-43, called once by start() with a fetch that resolves
init(data) ==
  /\ DATA' = loadApiData(data)
  /\ ALIASES' = AliasSource
  /\ UNCHANGED <<serviceVars, RESULT_LIMIT, input, result, content, sent, parsed, logged,
                 countdown, rejections, load, stage, focused, choices>>

\* a direct call of getClosestCard (view_aliases execute, part_001 line 56).
\* The resolver keeps nothing from one call to the next, so a behaviour
\* makes one call.
Resolve(in) ==
  /\ input' = in
  /\ result' = getClosestCard(in)
  /\ UNCHANGED <<serviceVars, DATA, ALIASES, RESULT_LIMIT, content, sent, parsed, logged,
                 countdown, rejections, load, stage, focused, choices>>

\* execute, lines 118-142, for a message that passes the author, whitelist
\* and direct-message gates; an empty content returns at line 123. The handler keeps nothing from one message to
\* the next (cards and countdown are locals), so a behaviour handles one.
execute(text) ==
  /\ content' = text
  /\ \E run \in {parseInlineCommands(text)} :
        /\ sent' = (IF text = <<>> THEN <<>> ELSE run.sent)
        /\ parsed' = (IF text = <<>> THEN <<>> ELSE run.parsed)
        /\ logged' = (IF text = <<>> THEN 0 ELSE run.logged)
        /\ countdown' = (IF text = <<>> THEN NaN ELSE run.countdown)
        /\ rejections' = (IF text = <<>> THEN 0 ELSE run.rejections)
  /\ UNCHANGED <<serviceVars, DATA, ALIASES, RESULT_LIMIT, input, result, load, stage,
                 focused, choices>>

Idle == Built /\ input = NoCall /\ content = NoCall

Start == DOMAIN DATA = {} /\ \E data \in Snapshots(CardPool) : init(data)
Lookup == Idle /\ \E in \in Queries : Resolve(in)

\* the resolver: a build, then direct lookups
Next == Start \/ Lookup

Spec == Init /\ [][Next]_vars

StartScan == DOMAIN DATA = {} /\ \E data \in Snapshots(ScanPool) : init(data)
Message == Idle /\ \E text \in Messages : execute(text)

\* the message handler: a build, then messages
NextScan == StartScan \/ Message

SpecScan == Init /\ [][NextScan]_vars

-----------------------------------------------------------------------------
(* The build: init called, the fetch settled, lookups meanwhile *)

\* a slip of help.js line 137: a rejection of initWR() is swallowed
afterInitCaught(threw) == "initCommands"

\* help.js line 137, await initWR() in start(): when init resolves start()
\* goes on to initCommands; a rejection leaves start() by the await
afterInit(threw) == IF threw = NoError THEN "initCommands" ELSE "rejected"

\* init, lines 40-43, called: loadApiData runs to the await of line 55
CallInit ==
  /\ load.state # "fetching"
  /\ load.count < MaxBuilds
  /\ DATA' = beforeFetch(DATA)
  /\ load' = [load EXCEPT !.state = "fetching", !.previous = DATA,
                          !.thrown = NoError, !.kind = "none",
                          !.count = @ + 1, !.served = 0]

\* the fetch of line 55 settles and loadApiData runs on, without another
\* await, to its end or to the statement that throws; init then calls
\* loadAliases (line 42) unless loadApiData threw
Settle(response) ==
  /\ load.state = "fetching"
  /\ LET fetched == fetchData(response)
         run == IF fetched.threw # NoError
                THEN [DATA |-> DATA, threw |-> fetched.threw]
                ELSE loadApiDataFrom(DATA, fetched.value)
     IN /\ DATA' = run.DATA
        /\ ALIASES' = (IF run.threw = NoError THEN AliasSource ELSE ALIASES)
        /\ load' = [load EXCEPT
                      !.state = IF run.threw = NoError THEN "done" ELSE "failed",
                      !.thrown = run.threw,
                      !.kind = response.kind,
                      !.data = response.data]
        /\ stage' = (IF stage = "initWR" THEN afterInit(run.threw) ELSE stage)

\* getClosestCard called on the index as it stands; every path ends in
\* getCard, which throws when DATA.cards is undefined
ResolveNow(in) ==
  /\ input' = in
  /\ result' = (IF Has(DATA, "cards") THEN getClosestCard(in) ELSE TypeError)
  /\ load' = [load EXCEPT !.served = IF load.state = "fetching" THEN 1 ELSE @]

Rebuild ==
  /\ CallInit
  /\ UNCHANGED <<serviceVars, ALIASES, RESULT_LIMIT, input, result, content, sent, parsed,
                 logged, countdown, rejections, stage, focused, choices>>

Fetched ==
  /\ \E response \in Responses : Settle(response)
  /\ UNCHANGED <<serviceVars, RESULT_LIMIT, input, result, content, sent, parsed, logged,
                 countdown, rejections, focused, choices>>

Meanwhile ==
  /\ Built /\ input = NoCall
  /\ \E in \in BuildQueries : ResolveNow(in)
  /\ UNCHANGED <<serviceVars, DATA, ALIASES, RESULT_LIMIT, content, sent, parsed, logged,
                 countdown, rejections, stage, focused, choices>>

\* an autocomplete interaction, part_001 lines 79-85, on the index as it
\* stands
SearchMeanwhile ==
  /\ Built /\ focused = NoCall
  /\ focused' = <<"a">>
  /\ choices' = autocomplete(<<"a">>)
  /\ UNCHANGED <<serviceVars, DATA, ALIASES, RESULT_LIMIT, input, result, content, sent,
                 parsed, logged, countdown, rejections, load, stage>>

InitBuild == Init /\ RESULT_LIMIT = Undefined

\* api.js as its importers may use it: init, also again on a built index,
\* and lookups at any time once an index stands
NextBuild == Rebuild \/ Fetched \/ Meanwhile \/ SearchMeanwhile

SpecBuild == InitBuild /\ [][NextBuild]_vars

-----------------------------------------------------------------------------
(* start(), help.js lines 132-154 *)

\* lines 132-137: start() calls initWR()
Starting ==
  /\ stage = "new"
  /\ CallInit
  /\ stage' = "initWR"
  /\ UNCHANGED <<serviceVars, ALIASES, RESULT_LIMIT, input, result, content, sent, parsed,
                 logged, countdown, rejections, focused, choices>>

\* the awaits of lines 147, 149, 151 and 153, each resolving in turn:
\* commands, message handler and events registered, then the client logged in
NextStage ==
  [s \in {"initCommands", "initHandler", "initEvents", "login"} |->
     CASE s = "initCommands" -> "initHandler"
       [] s = "initHandler" -> "initEvents"
       [] s = "initEvents" -> "login"
       [] s = "login" -> "ready"]

Proceed ==
  /\ stage \in DOMAIN NextStage
  /\ stage' = NextStage[stage]
  /\ UNCHANGED <<serviceVars, DATA, ALIASES, RESULT_LIMIT, input, result, content, sent,
                 parsed, logged, countdown, rejections, load, focused,
                 choices>>

\* a command served by the logged-in client resolves a query
Serve ==
  /\ stage = "ready" /\ input = NoCall
  /\ \E in \in Queries : Resolve(in)

\* the bot: start(), then the commands it serves
NextStart == Starting \/ Fetched \/ Proceed \/ Serve

SpecStart == Init /\ [][NextStart]_vars

-----------------------------------------------------------------------------
(* The cap: texts of up to MaxSpans references on a catalog that has them all *)

StartCap == DOMAIN DATA = {} /\ init(CapSnapshot)
MessageCap == Idle /\ \E text \in CapTexts : execute(text)

NextCap == StartCap \/ MessageCap

SpecCap == Init /\ [][NextCap]_vars

-----------------------------------------------------------------------------
(* The search: autocomplete interactions on catalogs of up to MaxTitles cards *)

\* an autocomplete interaction of view_aliases, part_001 lines 79-85
Complete(value) ==
  /\ focused' = value
  /\ choices' = autocomplete(value)
  /\ UNCHANGED <<serviceVars, DATA, ALIASES, RESULT_LIMIT, input, result, content, sent,
                 parsed, logged, countdown, rejections, load, stage>>

StartWide == DOMAIN DATA = {} /\ \E data \in WideSnapshots : init(data)
Suggest ==
  /\ Built /\ focused = NoCall
  /\ \E value \in FocusedValues : Complete(value)

NextSearch == StartWide \/ Suggest

SpecSearch == Init /\ [][NextSearch]_vars

-----------------------------------------------------------------------------
(* What the claims speak of *)

Handled == content # NoCall

Configured == RESULT_LIMIT # Undefined

\* the configured limit N
Limit == ToNumber(RESULT_LIMIT).n

\* the reference spans of the handled text, left to right
Spans == IF Handled THEN Matches(content) ELSE <<>>

\* a span whose trimmed inner text is neither empty nor over-long
Valid(match) ==
  LET rawInput == rawInputOf(match)
  IN rawInput # <<>> /\ Len(rawInput) <= MaxQueryLength

\* what a valid span resolves to
Resolution(match) == getClosestCard(applyAlias(rawInputOf(match)))

\* what the scan makes of a span: Skipped for one that is not valid, else
\* what it resolves to
Skipped == <<"skipped">>

Outcome(match) == IF Valid(match) THEN Resolution(match) ELSE Skipped

RECURSIVE Outcomes(_)
Outcomes(matches) ==
  IF matches = <<>> THEN <<>>
  ELSE <<Outcome(Head(matches))>> \o Outcomes(Tail(matches))

\* every span is valid and the spans resolve to different entries
AllFoundDistinct(outcomes) ==
  /\ \A i \in DOMAIN outcomes : outcomes[i] \notin {Skipped, Undefined}
  /\ \A i, j \in DOMAIN outcomes :
       id(outcomes[i]) = id(outcomes[j]) => i = j

RECURSIVE IsSubsequence(_, _)
IsSubsequence(a, b) ==
  \/ a = <<>>
  \/ /\ b # <<>>
     /\ IF Head(a) = Head(b) THEN IsSubsequence(Tail(a), Tail(b))
        ELSE IsSubsequence(a, Tail(b))

SentCards == [i \in DOMAIN sent |-> sent[i].card]

\* how many references of the entry cardId were sent
TimesSent(cardId) == Cardinality({i \in DOMAIN sent : id(sent[i].card) = cardId})

-----------------------------------------------------------------------------
(* C1 *)

\* the entries of the valid spans, in order
ValidOutcomes(outcomes) == SelectSeq(outcomes, LAMBDA o : o # Skipped)

\* C1: with a configured limit N >= 1, one scan emits at most N references,
\* in the left-to-right order of their spans, and hands no span to the
\* resolver after the N-th emission; a text with k valid spans that resolve
\* to k different entries yields exactly min(k, N) emissions.
C1_CapAndOrder ==
  (Handled /\ Configured) =>
    LET outcomes == Outcomes(Spans)
        valid == ValidOutcomes(outcomes)
    IN /\ Len(sent) <= Limit
       /\ IsSubsequence(SentCards, outcomes)
       /\ (Len(sent) = Limit =>
             /\ parsed # <<>>
             /\ Outcome(parsed[Len(parsed)]) = sent[Limit].card)
       /\ (AllFoundDistinct(valid) => Len(sent) = Min2(Len(valid), Limit))

\* C1, the case: the valid spans of the text resolve to different entries
\* and fewer than min(k, N) references were sent
C1_Witness ==
  /\ Handled /\ Configured
  /\ LET valid == ValidOutcomes(Outcomes(Spans))
     IN /\ AllFoundDistinct(valid)
        /\ Len(sent) < Min2(Len(valid), Limit)

\* C1 on the texts all of whose spans are valid: there the scan emits at
\* most N references, in span order, hands no span to the resolver after
\* the N-th emission, and emits exactly min(k, N) when the k spans resolve
\* to different entries.
C1_CapOnValidSpans ==
  (Handled /\ Configured) =>
    LET outcomes == Outcomes(Spans)
    IN (\A i \in DOMAIN outcomes : outcomes[i] # Skipped) =>
         /\ Len(sent) <= Limit
         /\ IsSubsequence(SentCards, outcomes)
         /\ (Len(sent) = Limit =>
               /\ parsed # <<>>
               /\ Outcome(parsed[Len(parsed)]) = sent[Limit].card)
         /\ (AllFoundDistinct(outcomes) =>
               Len(sent) = Min2(Len(outcomes), Limit))

-----------------------------------------------------------------------------
(* C2 *)

\* C2: within one text no entry is emitted more than once: the entry of
\* every span that was resolved has exactly one output, however many spans
\* resolve to it.
C2_NoEntryTwice ==
  Handled =>
    /\ \A i, j \in DOMAIN sent :
         id(sent[i].card) = id(sent[j].card) => i = j
    /\ LET outcomes == Outcomes(parsed)
       IN \A p \in DOMAIN outcomes :
            outcomes[p] \notin {Skipped, Undefined} =>
              TimesSent(id(outcomes[p])) = 1

\* C2 witness: two spans of the text were resolved to the same entry and one
\* reference was sent for it
C2_Witness ==
  /\ Handled
  /\ LET outcomes == Outcomes(parsed)
     IN \E p, q \in DOMAIN outcomes :
          /\ p < q
          /\ outcomes[p] \notin {Skipped, Undefined}
          /\ id(outcomes[p]) = id(outcomes[q])
          /\ TimesSent(id(outcomes[p])) = 1

-----------------------------------------------------------------------------
(* C3 *)

\* a span that found an entry
IsEntry(outcome) == outcome \notin {Skipped, Undefined}

\* C3: in one scan a span that resolves to an entry already emitted, or to
\* not found, takes no slot of the cap. Stated for the texts all of whose
\* spans are valid and find an entry: the counter has gone down by the number
\* of emissions, and the scan ends only with N references emitted or with
\* every span handed to the resolver.
C3_OnlyEmissionsCount ==
  (Handled /\ Configured) =>
    LET outcomes == Outcomes(Spans)
    IN (outcomes # <<>> /\ \A i \in DOMAIN outcomes : IsEntry(outcomes[i])) =>
         /\ countdown = Num(Limit - Len(sent))
         /\ (Len(sent) = Limit \/ Len(parsed) = Len(outcomes))

\* C3, the case: every span finds an entry, one of them is a repeat, and
\* the scan is over with fewer than N references sent and a span whose
\* entry was not sent never handed to the resolver
C3_Witness ==
  /\ Handled /\ Configured
  /\ Len(sent) < Limit
  /\ LET outcomes == Outcomes(Spans)
     IN /\ \A i \in DOMAIN outcomes : IsEntry(outcomes[i])
        /\ Len(sent) < Len(parsed)
        /\ \E i \in DOMAIN outcomes :
             /\ i > Len(parsed)
             /\ TimesSent(id(outcomes[i])) = 0

-----------------------------------------------------------------------------
(* C4 *)

\* C4: a span whose trimmed inner text is empty or over 255 characters is
\* passed over and the valid spans after it are still resolved and emitted:
\* on a text whose valid spans resolve to different entries, the references
\* sent are those of the first min(k, N) valid spans.
C4_InvalidSpanSkipped ==
  (Handled /\ Configured) =>
    LET valid == ValidOutcomes(Outcomes(Spans))
    IN AllFoundDistinct(valid) =>
         SentCards = SubSeq(valid, 1, Min2(Len(valid), Limit))

\* C4, the case: a span that is not valid comes before a valid one, and
\* nothing is sent
C4_Witness ==
  /\ Handled /\ Configured
  /\ sent = <<>> /\ parsed = <<>>
  /\ LET outcomes == Outcomes(Spans)
     IN /\ outcomes # <<>>
        /\ outcomes[1] = Skipped
        /\ \E i \in DOMAIN outcomes : IsEntry(outcomes[i])

-----------------------------------------------------------------------------
(* C5 *)

\* how many of the spans handed to the resolver found no entry
NotFoundCount ==
  Cardinality({p \in DOMAIN parsed : Outcome(parsed[p]) = Undefined})

\* C5: a span that resolves to not found sends nothing, is reported to
\* logError, and the scan goes on: every such span was logged once and no
\* call of parseCard failed.
C5_NotFoundLogged ==
  Handled =>
    /\ logged = NotFoundCount
    /\ rejections = 0

\* C5, the case: a span found no entry, nothing was logged for it and the
\* call that resolved it was rejected
C5_Witness ==
  /\ Handled
  /\ NotFoundCount > 0
  /\ logged = 0
  /\ rejections = NotFoundCount

-----------------------------------------------------------------------------
(* C6 *)

\* the fenced blocks of a text, each as <<first, last>> position: from an
\* unescaped triple backtick to the end of the next triple backtick, paired
\* left to right
RECURSIVE FencesFrom(_, _, _)
FencesFrom(s, marks, from) ==
  LET opens == {i \in marks :
                  /\ i >= from
                  /\ (i > 1 => s[i - 1] # "\\")
                  /\ \E j \in marks : j >= i + 3}
      first == Least(opens)
      last == Least({j \in marks : j >= first + 3}) + 2
  IN IF opens = {} THEN {}
     ELSE {<<first, last>>} \cup FencesFrom(s, marks, last + 1)

Fences(s) == FencesFrom(s, TickStarts(s), 1)

\* the text outside every fence
RECURSIVE Outside(_, _, _)
Outside(s, fences, from) ==
  LET next == {f \in fences : f[1] >= from}
      fence == CHOOSE f \in next : \A g \in next : f[1] <= g[1]
  IN IF next = {} THEN SubSeq(s, from, Len(s))
     ELSE SubSeq(s, from, fence[1] - 1) \o Outside(s, fences, fence[2] + 1)

IsPrefix(a, b) == Len(a) <= Len(b) /\ a = SubSeq(b, 1, Len(a))

-----------------------------------------------------------------------------
(* C7 *)

\* the span a sent reference comes from: the first span handed to the
\* resolver that resolves to its card
Origin(reference, outcomes) ==
  parsed[Least({p \in DOMAIN outcomes : outcomes[p] = reference.card})]

\* C7: the delimiters of its span decide the view of a sent reference:
\* [[ ]] gives the full view, {{ }} the art-only view.
C7_ViewByDelimiter ==
  Handled =>
    LET outcomes == Outcomes(parsed)
    IN \A i \in DOMAIN sent :
         /\ \E p \in DOMAIN outcomes : outcomes[p] = sent[i].card
         /\ LET opener == Origin(sent[i], outcomes)[1]
            IN /\ opener = "[" => sent[i].view = "full"
               /\ opener = "{" => sent[i].view = "art"

\* C7 witness: one text had a [[ ]] span sent in the full view and a {{ }}
\* span sent in the art-only view
C7_Witness ==
  /\ Handled
  /\ LET outcomes == Outcomes(parsed)
     IN \E i, j \in DOMAIN sent :
          /\ Origin(sent[i], outcomes)[1] = "[" /\ sent[i].view = "full"
          /\ Origin(sent[j], outcomes)[1] = "{" /\ sent[j].view = "art"

-----------------------------------------------------------------------------
(* C8 *)

\* a direct call of getClosestCard has returned
Called == Built /\ input # NoCall

\* the entries of the catalog, in snapshot order
Entries == ElementsFrom(DATA.cards, 0)

\* the call took the acronym shortcut
Shortcut == IsAcronymQuery(input, normalise(input))

PrefixSet(q) == {t \in Range(DATA.normalisedCardTitles) : startsWith(t, q)}

SubstringSet(q) == {t \in Range(DATA.normalisedCardTitles) : includes(t, q)}

\* the candidate set of a normalised query: the first of the three that is
\* not empty
ChosenSet(q) ==
  IF PrefixSet(q) # {} THEN PrefixSet(q)
  ELSE IF SubstringSet(q) # {} THEN SubstringSet(q)
  ELSE Range(DATA.normalisedCardTitles)

\* C8 as stated: whatever the query, the title of the entry returned belongs
\* to the set chosen in priority order (prefix, substring, all titles).
C8_TitleInChosenSetAlways ==
  (Called /\ result # Undefined) =>
    normalise(frontFace(result)) \in ChosenSet(normalise(input))

\* C8, amended: for every query that does not take the acronym shortcut,
\* on a catalog with entries, an entry is returned and its title belongs to
\* the set chosen in priority order (prefix, substring, all titles).
C8_TitleInChosenSet ==
  (Called /\ ~Shortcut /\ Entries # <<>>) =>
    /\ result # Undefined
    /\ normalise(frontFace(result)) \in ChosenSet(normalise(input))

\* C8 witness: a title starts with the query, another only contains it, and
\* the entry returned is one whose title starts with it
C8_Witness ==
  /\ Called /\ ~Shortcut
  /\ result # Undefined
  /\ LET q == normalise(input)
     IN /\ PrefixSet(q) # {}
        /\ SubstringSet(q) \ PrefixSet(q) # {}
        /\ normalise(frontFace(result)) \in PrefixSet(q)

-----------------------------------------------------------------------------
(* C9 *)

\* the positions of the entries whose normalised title is q
Titled(q) == {i \in DOMAIN Entries : normalise(frontFace(Entries[i])) = q}

Greatest(S) == CHOOSE x \in S : \A y \in S : y <= x

-----------------------------------------------------------------------------
(* C10 *)

\* C10: on a built catalog that is not empty, getClosestCard returns an
\* entry of the catalog for every query.
C10_AlwaysAnEntry ==
  (Called /\ Entries # <<>>) =>
    \E i \in DOMAIN Entries : result = Entries[i]

\* C10, the case: a catalog with entries, a query, and no entry returned
C10_Witness ==
  /\ Called /\ Entries # <<>>
  /\ result = Undefined

-----------------------------------------------------------------------------
(* C11 *)

\* the acronym of an entry, as lines 72-75 compute it
AcronymOfEntry(card) == acronymOf(normalise(frontFace(card)), 1)

\* the positions of the entries whose acronym is a
WithAcronym(a) == {i \in DOMAIN Entries : AcronymOfEntry(Entries[i]) = a}

\* the acronyms of the catalog
Acronyms == {AcronymOfEntry(Entries[i]) : i \in DOMAIN Entries}

\* C11: when several entries produce the same acronym, the acronym index
\* maps the acronym to the entry that comes first in the snapshot, and
\* resolving the upper-case acronym (of more than one letter) returns that
\* first entry, never a later one.
C11_FirstAcronymWins ==
  Built =>
    \A a \in Acronyms :
      LET first == Entries[Least(WithAcronym(a))]
      IN /\ ObjGet(DATA.acronymsToCardIds, a) = id(first)
         /\ (Called /\ Len(a) > 1 /\ input = toUpperCase(a)) => result = first

\* C11, the case: two entries produce the acronym that was resolved in
\* upper case, and a later one of them is returned
C11_Witness ==
  /\ Called
  /\ \E a \in Acronyms :
       /\ Len(a) > 1 /\ input = toUpperCase(a)
       /\ Cardinality(WithAcronym(a)) > 1
       /\ \E i \in WithAcronym(a) :
            i > Least(WithAcronym(a)) /\ result = Entries[i]
       /\ result # Entries[Least(WithAcronym(a))]

\* C11, the index alone: every acronym is mapped to the id of the first
\* entry of the snapshot that produces it.
C11_IndexKeepsFirst ==
  Built =>
    \A a \in Acronyms :
      ObjGet(DATA.acronymsToCardIds, a) = id(Entries[Least(WithAcronym(a))])

-----------------------------------------------------------------------------
(* C12 *)

\* the condition of the claim on the query that was resolved: it equals its
\* upper-case form, its normalised form is longer than 1 and is a key of
\* the acronym index
ShortcutDue ==
  /\ toUpperCase(input) = input
  /\ Len(normalise(input)) > 1
  /\ normalise(input) \in DOMAIN DATA.acronymsToCardIds

\* what the acronym index gives for the query
ByAcronym == getCard(DATA.acronymsToCardIds[normalise(input)])

\* what the prefix, substring and whole-catalog tiers give for the query
ByTiers ==
  LET q == normalise(input)
      chosen == SelectSeq(DATA.normalisedCardTitles,
                          LAMBDA t : t \in ChosenSet(q))
  IN getCard(readId(bestMatch(q, chosen)))

\* C12: getClosestCard returns the acronym index's entry, without running
\* the tiers, exactly when the original query is entirely upper-case, longer
\* than 1 and a key of the acronym index; every other query is resolved by
\* the tiers.
C12_ShortcutExactlyWhen ==
  Called => result = (IF ShortcutDue THEN ByAcronym ELSE ByTiers)

\* C12, the case: the query is no key of the acronym index, the tiers give
\* an entry for it, and the call returned without running them
C12_Witness ==
  /\ Called /\ ~ShortcutDue
  /\ Shortcut
  /\ ByTiers # Undefined
  /\ result # ByTiers

\* C12 on the queries that are not a member inherited by the acronym index:
\* there the shortcut is taken exactly when the claim says.
C12_ShortcutOnOwnKeys ==
  (Called /\ normalise(input) # constructorKey) =>
    /\ Shortcut <=> ShortcutDue
    /\ result = (IF ShortcutDue THEN ByAcronym ELSE ByTiers)

-----------------------------------------------------------------------------
(* C13 *)

\* the normalised title of the i-th entry
TitleAt(i) == normalise(frontFace(Entries[i]))

-----------------------------------------------------------------------------
(* C14 *)

\* two values of DATA hold the same index: the same members, each with the
\* same value
SameIndex(a, b) ==
  /\ DOMAIN a = DOMAIN b
  /\ \A f \in DOMAIN a : a[f] = b[f]

\* the build that ended last was handed a malformed document
Malformed == load.state = "failed" /\ load.kind = "ok"

\* C14: when the snapshot given to a build is malformed (no cards array, a
\* card without fullNames, no expansions array) the build fails and every
\* structure of the index is what it was before the build started.
C14_MalformedLeavesIndex ==
  (load.state \in {"done", "failed"} /\ load.kind = "ok"
     /\ (load.data.missing # "none"
          \/ \E i \in DOMAIN load.data.cards :
               frontFace(load.data.cards[i]) = Undefined)) =>
    /\ load.state = "failed"
    /\ SameIndex(DATA, load.previous)

\* C14, the case: a rebuild on a built index was handed a malformed document
\* and failed, and the index differs from what it was
C14_Witness ==
  /\ Malformed
  /\ Has(load.previous, "normalisedCardTitles")
  /\ ~SameIndex(DATA, load.previous)

-----------------------------------------------------------------------------
(* C15 *)

\* C15: a lookup that runs while a rebuild is in progress, from the call of
\* loadApiData to its return, sees all structures of the old index or all of
\* the new one: while the fetch is awaited the index is the one the build
\* started on, member for member, and when loadApiData has returned it is
\* the index of the fetched snapshot, member for member.
C15_OldOrNewIndex ==
  /\ load.state = "fetching" => SameIndex(DATA, load.previous)
  /\ load.state = "done" => SameIndex(DATA, loadApiData(load.data))

\* C15 witness: a query was resolved to an entry while the fetch of a
\* rebuild on a built index was awaited
C15_Witness ==
  /\ load.state = "fetching"
  /\ load.served = 1
  /\ Has(load.previous, "normalisedCardTitles")
  /\ input # NoCall
  /\ result \notin {Undefined, TypeError}

-----------------------------------------------------------------------------
(* C16 *)

\* the fetch of the build that ended last failed
FetchFailed == load.kind \in {"rejected", "not ok", "bad body"}

\* C16: when the fetch fails (the request rejects, the response is not ok,
\* the body does not parse) fetchData throws its error, loadApiData fails
\* with it, and no member of DATA is modified.
C16_FetchFailureLeavesData ==
  FetchFailed =>
    /\ load.state = "failed"
    /\ load.thrown = FetchError
    /\ SameIndex(DATA, load.previous)

\* C16 witness: the response of a rebuild on a built index was not ok; the
\* build failed with the fetch error and the index is as it was
C16_Witness ==
  /\ load.kind = "not ok"
  /\ load.state = "failed" /\ load.thrown = FetchError
  /\ Has(load.previous, "normalisedCardTitles")
  /\ Len(load.previous.normalisedCardTitles) > 0
  /\ SameIndex(DATA, load.previous)

-----------------------------------------------------------------------------
(* C17 *)

\* start() is past await initWR(): something is registered or about to be
PastInit == stage \in {"initCommands", "initHandler", "initEvents", "login",
                       "ready"}

\* C17: start() completes the catalog build before any command, handler or
\* event is registered and before the client logs in; if the build fails,
\* start() fails and none of those steps runs; so a query is only resolved
\* on an index that was built successfully.
C17_BuildBeforeService ==
  /\ PastInit =>
       /\ load.state = "done"
       /\ SameIndex(DATA, loadApiData(load.data))
  /\ load.state = "failed" => stage = "rejected"
  /\ input # NoCall => (stage = "ready" /\ load.state = "done")

\* C17 witness: the client is logged in after a successful build and has
\* resolved a query to an entry
C17_Witness ==
  /\ stage = "ready" /\ load.state = "done"
  /\ input # NoCall
  /\ result # Undefined

\* C17, the other case: the build failed on a malformed document and
\* start() was left at the await
C17_WitnessFailed ==
  /\ stage = "rejected" /\ load.state = "failed"
  /\ load.thrown = TypeError

-----------------------------------------------------------------------------
(* C18 *)

\* the default of the limit, as the README gives it
DefaultLimit == 5

\* C18: when RESULT_LIMIT is unset a scan applies the default cap of 5: it
\* emits at most 5 references for any text.
C18_DefaultCap ==
  (Handled /\ ~Configured) => Len(sent) <= DefaultLimit

\* C18, the case: RESULT_LIMIT is unset and a text with more than 5 valid
\* spans of different entries had a reference sent for each
C18_Witness ==
  /\ Handled /\ ~Configured
  /\ Len(Spans) > DefaultLimit
  /\ Len(sent) = Len(Spans)

-----------------------------------------------------------------------------
(* C20 *)

\* the spans of the handled text that are not of the form << >>
NotAngled == SelectSeq(Spans, LAMBDA match : match[1] # "<")

\* C20: a << >> span is matched but unhandled: it produces neither a
\* full-view nor an art-only output and takes no slot of the cap; the scan
\* sends, and counts, what it does on the other spans alone.
C20_AngledSpanUnhandled ==
  (Handled /\ \E p \in DOMAIN Spans : Spans[p][1] = "<") =>
    LET alone == parseMatches(NotAngled)
    IN /\ sent = alone.sent
       /\ countdown = alone.countdown

\* C20, the case: the text has a << >> span, and an art-only reference was
\* sent for the entry it names
C20_Witness ==
  /\ Handled
  /\ \E p \in DOMAIN parsed :
       /\ parsed[p][1] = "<"
       /\ \E i \in DOMAIN sent :
            /\ sent[i].card = Outcome(parsed[p])
            /\ sent[i].view = "art"

-----------------------------------------------------------------------------
(* C19 *)

\* an autocomplete interaction has been responded to
Suggested == Built /\ focused # NoCall

\* the normalised titles of the index that start with q, in index order
StartingWith(q) ==
  SelectSeq(DATA.normalisedCardTitles, LAMBDA title : IsPrefix(q, title))

-----------------------------------------------------------------------------
(* The button registry in use *)

MaxRegistered == 2
MaxInvoked == 2

\* a command registers a button
Register ==
  /\ Len(registered) < MaxRegistered
  /\ \E i \in {"i1"}, buttonId \in {<<"a">>, <<"b">>},
        does \in {"returns", "throws", "presses", "registers"} :
       LET st == registerButton([BUTTONS |-> BUTTONS,
                                 registered |-> registered,
                                 invoked |-> invoked, threw |-> NoError],
                                i, buttonId, does)
       IN /\ BUTTONS' = st.BUTTONS
          /\ registered' = st.registered
  /\ UNCHANGED <<DATA, ALIASES, RESULT_LIMIT, input, result, content, sent,
                 parsed, logged, countdown, rejections, load, stage, focused,
                 choices, invoked, pressed, randomCard, helped,
                 commands>>

\* a button interaction arrives
Press ==
  /\ Len(invoked) < MaxInvoked
  /\ \E x \in {"x1", "x2"},
        buttonId \in {<<"a">>, <<"b">>, constructorKey} :
       LET st == callButton([BUTTONS |-> BUTTONS, registered |-> registered,
                             invoked |-> invoked, threw |-> NoError],
                            x, buttonId)
       IN /\ BUTTONS' = st.BUTTONS
          /\ registered' = st.registered
          /\ invoked' = st.invoked
          /\ pressed' = [interaction |-> x, buttonId |-> buttonId,
                         reg |-> IF Has(BUTTONS, buttonId)
                                 THEN BUTTONS[buttonId].callback.reg ELSE 0,
                         threw |-> st.threw]
  /\ UNCHANGED <<DATA, ALIASES, RESULT_LIMIT, input, result, content, sent,
                 parsed, logged, countdown, rejections, load, stage, focused,
                 choices, randomCard, helped,
                 commands>>

NextButtons == Register \/ Press

SpecButtons == Init /\ [][NextButtons]_vars

\* the calls made of the callback of the n-th registration
CallsOf(n) == {k \in DOMAIN invoked : invoked[k].reg = n}

StillRegistered(n) ==
  /\ Has(BUTTONS, registered[n].buttonId)
  /\ BUTTONS[registered[n].buttonId].callback.reg = n

\* C21: button callbacks are single-use: a callButton that finds a
\* registration calls its callback with the registering and the pressing
\* interaction and removes the registration, and no callback is called more
\* than once per registration, whatever it does
C21_SingleUse ==
  /\ \A n \in DOMAIN registered : Cardinality(CallsOf(n)) <= 1
  /\ pressed.reg # 0 =>
       /\ \E k \in CallsOf(pressed.reg) :
            /\ invoked[k].parentInteraction
                 = registered[pressed.reg].interaction
            /\ invoked[k].buttonInteraction = pressed.interaction
       /\ ~StillRegistered(pressed.reg)

\* a callback that threw is called again by the next press of its button
C21_Witness ==
  \E n \in DOMAIN registered :
    /\ registered[n].does = "throws"
    /\ Cardinality(CallsOf(n)) = 2

\* a callback that presses its own button is called again within its call
C21_WitnessNested ==
  \E n \in DOMAIN registered :
    /\ registered[n].does = "presses"
    /\ Cardinality(CallsOf(n)) = 2
    /\ pressed.threw = NoError

\* the n-th registration was replaced by a later registerButton of its id
Replaced(n) ==
  \E m \in DOMAIN registered :
    m > n /\ registered[m].buttonId = registered[n].buttonId

\* C22: a registration stays in the registry until a callButton for its id
\* calls its callback: one whose callback was never called, and which no
\* later registerButton replaced, is still registered, also when it was made
\* from inside the callback that a callButton for the same id was running
C22_StaysUntilInvoked ==
  \A n \in DOMAIN registered :
    (CallsOf(n) = {} /\ ~Replaced(n)) => StillRegistered(n)

\* a callback registered its own button again and its callButton returned
C22_Witness ==
  /\ pressed.reg # 0
  /\ pressed.threw = NoError
  /\ registered[pressed.reg].does = "registers"
  /\ \E n \in DOMAIN registered :
       /\ n > pressed.reg
       /\ registered[n].buttonId = pressed.buttonId
       /\ CallsOf(n) = {}
       /\ ~Replaced(n)
       /\ ~Has(BUTTONS, pressed.buttonId)

-----------------------------------------------------------------------------
(* getRandomCardId *)

\* randomElement (Utility/random.js): any element of the list; undefined of
\* an empty one
randomElement(keys) == IF keys = {} THEN {Undefined} ELSE keys

\* lines 175-178. Object.keys of an Array object are its own enumerable
\* properties: the element indices and whatever else was stored on it
\* (length is not one).
getRandomCardId == randomElement(DOMAIN DATA.cards.props)

\* one call of getRandomCardId after the build
Pick ==
  /\ Built
  /\ randomCard = NoCall
  /\ randomCard' \in getRandomCardId
  /\ UNCHANGED <<DATA, ALIASES, RESULT_LIMIT, input, result, content, sent,
                 parsed, logged, countdown, rejections, load, stage, focused,
                 choices, BUTTONS, registered, invoked, pressed, helped,
                 commands>>

NextRandom == Start \/ Pick

SpecRandom == Init /\ [][NextRandom]_vars

\* the catalog entries of the build and the identifiers they are stored by
CatalogEntries == Range(ElementsFrom(DATA.cards, 0))
CatalogIds == {readId(frontFace(card)) : card \in CatalogEntries}

\* C23: after a successful build getRandomCardId returns only identifiers
\* of catalog entries, never another key of the card store, and getCard of
\* what it returns is a catalog entry
C23_RandomIdIsCardId ==
  (Built /\ randomCard # NoCall /\ CatalogEntries # {}) =>
    /\ randomCard \in CatalogIds
    /\ getCard(randomCard) \in CatalogEntries

\* getRandomCardId returned an array index of the card store
C23_Witness ==
  /\ Built
  /\ randomCard # NoCall
  /\ IsCanonicalIndex(randomCard)
  /\ randomCard \notin CatalogIds
  /\ getCard(randomCard) \in CatalogEntries

\* what does hold: the card looked up under the returned key is an entry
C23_PickedIsEntry ==
  (Built /\ randomCard # NoCall /\ CatalogEntries # {}) =>
    getCard(randomCard) \in CatalogEntries

-----------------------------------------------------------------------------
(* The help command in use *)

MaxCommands == 3

\* start(), line 147: the commands are loaded, up to MaxCommands of them,
\* of different names, in any order
LoadCommands ==
  /\ commands = <<>>
  /\ helped = NotHelped
  /\ commands' \in
       {l \in ListsOver(CommandPool, MaxCommands) \ {<<>>} :
          \A i, j \in DOMAIN l : l[i].data.name = l[j].data.name => i = j}
  /\ UNCHANGED <<DATA, ALIASES, RESULT_LIMIT, input, result, content, sent,
                 parsed, logged, countdown, rejections, load, stage, focused,
                 choices, BUTTONS, registered, invoked, pressed, randomCard,
                 helped>>

\* a /help interaction
Help ==
  /\ commands # <<>>
  /\ \E commandName \in {Undefined, <<>>, <<"h","e","l","p">>,
                          s_view_aliases, <<"c","a","r","d">>,
                          <<"n","o","p","e">>} :
       helped' = helpExecute(commands, commandName)
  /\ UNCHANGED <<DATA, ALIASES, RESULT_LIMIT, input, result, content, sent,
                 parsed, logged, countdown, rejections, load, stage, focused,
                 choices, BUTTONS, registered, invoked, pressed, randomCard,
                 commands>>

\* an autocomplete interaction of /help
HelpComplete ==
  /\ commands # <<>>
  /\ \E value \in {<<>>, <<"v">>, <<"V","i","e","w","_">>, <<"c">>,
                    <<"h","e">>} :
       helped' = helpAutocomplete(commands, value)
  /\ UNCHANGED <<DATA, ALIASES, RESULT_LIMIT, input, result, content, sent,
                 parsed, logged, countdown, rejections, load, stage, focused,
                 choices, BUTTONS, registered, invoked, pressed, randomCard,
                 commands>>

NextHelp == LoadCommands \/ Help \/ HelpComplete

SpecHelp == Init /\ [][NextHelp]_vars

\* the names of the loaded commands marked hidden from help
HiddenNames ==
  {commands[k].data.name :
     k \in {j \in DOMAIN commands : hideFromHelp(commands[j].meta)}}

ListedNames == {helped.listed[k].name : k \in DOMAIN helped.listed}

\* C24: a command marked hidden from help is never described by the help
\* command: it is absent from the full list and from the autocomplete
\* choices, and asked for by name it gets the 'Unknown command' reply
C24_HiddenNeverDescribed ==
  /\ ListedNames \cap HiddenNames = {}
  /\ (helped.kind = "execute" /\ helped.asked \in HiddenNames) =>
       helped.titleText = <<"Unknown command">>

\* view_aliases was asked for by name and was described
C24_Witness ==
  /\ helped.kind = "execute"
  /\ helped.asked = s_view_aliases
  /\ s_view_aliases \in HiddenNames
  /\ helped.titleText = <<"(backtick)">> \o s_view_aliases \o <<"(backtick)">>
  /\ helped.descriptionText = "displays all aliases of a given card"

\* what does hold: the full list and the choices leave the hidden ones out
C24_HiddenNeverListed == ListedNames \cap HiddenNames = {}

\* the list and the choices had a hidden command to leave out
C24_WitnessListed ==
  /\ HiddenNames # {}
  /\ ListedNames # {}
  /\ helped.asked \in {Undefined, <<"v">>}

====
